---- MODULE Spec2Model ----
(***************************************************************************)
(* State-machine model of the task management engine of the To-Do List     *)
(* application: Task and TaskManager (src/task_manager.py) on top of the   *)
(* JSON file store of DatabaseManager (src/database.py), and the user      *)
(* accounts of UserManager (src/user_manager.py).                          *)
(*                                                                         *)
(* Text (names, categories, descriptions, dictionary keys) is a sequence   *)
(* of one-character strings.  A datetime is an integer number of clock     *)
(* ticks; DayLen ticks make one calendar day.  All datetime.now() reads of *)
(* one call see the same tick.                                             *)
(***************************************************************************)
EXTENDS Integers, Sequences, FiniteSets, TLC

VARIABLES
    tasks,      \* TaskManager.tasks: the in-memory list of Task objects
    file,       \* parsed content of data/tasks/<username>_tasks.json
    fileState,  \* "absent": no file; "ok": valid JSON; "torn": truncated JSON
    saved,      \* history: the collection handed to the last save that succeeded
    now,        \* the wall clock read by datetime.now()
    nextId,     \* the next value uuid.uuid4() yields (fresh on every call)
    failures,   \* number of save_user_tasks calls that have failed so far
    backups,    \* data/backups: backup file name (its time stamp) -> content
    backupDir,  \* "writable" or "readonly": whether data/backups accepts files
    users,      \* UserManager.users: the in-memory dict, username -> record
    usersFile,  \* data/users.json: its state and its parsed content
    answer,     \* the value returned by the last query
    ret         \* the (success, message) pair returned by the last call

vars == <<tasks, file, fileState, saved, now, nextId, failures, backups,
         backupDir, users, usersFile, answer, ret>>

----------------------------------------------------------------------------
(* Bounds of the model *)

MaxTasks == 2      \* add_task is not called on a collection of this size
MaxIds == 2        \* number of Task objects ever constructed by add_task
MaxFailures == 1  \* save_user_tasks fails at most this often in a behaviour
MaxNow == 1        \* the clock runs over 0..MaxNow
DayLen == 2        \* clock ticks per calendar day
MaxDays == 2       \* the date queries run on the days 0..MaxDays, for
                   \* windows of 0..MaxDays days

(* Program constants *)

MaxNameLen == 200        \* len(name.strip()) > 200
DefaultDueDays == 7      \* timedelta(days=7)

----------------------------------------------------------------------------
(* Values *)

NoDate == 0 - 1                  \* Python None in a datetime-or-None slot
NoId == 0                        \* an id string that no uuid4() call produced

General == <<"G", "e", "n", "e", "r", "a", "l">>
EmptyText == << >>

Fill(n) == [i \in 1..n |-> "x"]

Statuses == {"Pending", "In Progress", "Completed", "Cancelled"}

(* JSON-side values of a date slot: an ISO string, a datetime object, null,
   a string that is no ISO timestamp *)
JStr(t) == [k |-> "str", v |-> t]
JDt(t) == [k |-> "dt", v |-> t]
JNull == [k |-> "null", v |-> 0]
JBad == [k |-> "bad", v |-> 0]

----------------------------------------------------------------------------
(* Text helpers *)

IsSpace(c) == c = " "

RECURSIVE LStrip(_)
LStrip(s) ==
    IF s = << >> THEN s
    ELSE IF IsSpace(Head(s)) THEN LStrip(Tail(s)) ELSE s

RECURSIVE RStrip(_)
RStrip(s) ==
    IF s = << >> THEN s
    ELSE IF IsSpace(s[Len(s)]) THEN RStrip(SubSeq(s, 1, Len(s) - 1)) ELSE s

\* str.strip()
Strip(s) == RStrip(LStrip(s))

\* sub in s
Contains(sub, s) ==
    \E i \in 0..(Len(s) - Len(sub)) : SubSeq(s, i + 1, i + Len(sub)) = sub

----------------------------------------------------------------------------
(* Task *)

\* a constructor whose default due date is a day short
NewTaskDueEarly(id, name, priority, due_date, category, status, description, t) ==
    [id |-> id,
     name |-> name,
     priority |-> priority,
     due_date |-> IF due_date = NoDate THEN t + (DefaultDueDays - 1) * DayLen
                  ELSE due_date,
     category |-> category,
     status |-> status,
     description |-> description,
     created_at |-> t,
     updated_at |-> t]

\* Task.__init__
NewTask(id, name, priority, due_date, category, status, description, t) ==
    [id |-> id,
     name |-> name,
     priority |-> priority,
     due_date |-> IF due_date = NoDate THEN t + DefaultDueDays * DayLen
                  ELSE due_date,
     category |-> category,
     status |-> status,
     description |-> description,
     created_at |-> t,
     updated_at |-> t]

\* datetime.isoformat()
IsoFormat(t) == JStr(t)

\* Task.to_dict
ToDict(task) ==
    [id |-> task.id,
     name |-> task.name,
     priority |-> task.priority,
     due_date |-> IF task.due_date # NoDate THEN IsoFormat(task.due_date)
                  ELSE JNull,
     category |-> task.category,
     status |-> task.status,
     description |-> task.description,
     created_at |-> IsoFormat(task.created_at),
     updated_at |-> IsoFormat(task.updated_at)]

\* the try/except around datetime.fromisoformat in Task.from_dict: a value
\* that is not a str raises TypeError, a str that is no timestamp raises
\* ValueError, and the fallback stays
ParseDate(v, fallback) ==
    IF v.k = "null" THEN fallback
    ELSE IF v.k = "str" THEN v.v
    ELSE fallback

\* dict.get(key, default)
Get(data, key, default) == IF key \in DOMAIN data THEN data[key] ELSE default

\* data['name'] raises KeyError
MissingName(data) == "name" \notin DOMAIN data

\* Task.from_dict, for a record that has a name (and an id: the records of
\* the model all carry one, so no uuid is drawn here)
FromDict(data, t) ==
    LET due == ParseDate(Get(data, "due_date", JNull), NoDate)
        created == ParseDate(Get(data, "created_at", JNull), t)
        updated == ParseDate(Get(data, "updated_at", JNull), t)
        task == NewTask(data.id, data.name, Get(data, "priority", "Medium"),
                        due, Get(data, "category", General),
                        Get(data, "status", "Pending"),
                        Get(data, "description", EmptyText), t)
    IN  [task EXCEPT !.created_at = created, !.updated_at = updated]

----------------------------------------------------------------------------
(* DatabaseManager *)

DictKeys == {"id", "name", "priority", "due_date", "category", "status",
             "description", "created_at", "updated_at"}

DateSlots == {"due_date", "created_at", "updated_at"}

\* the characters of a dictionary key
KeyText(key) ==
    CASE key = "id" -> <<"i", "d">>
      [] key = "name" -> <<"n", "a", "m", "e">>
      [] key = "priority" -> <<"p", "r", "i", "o", "r", "i", "t", "y">>
      [] key = "due_date" -> <<"d", "u", "e", "_", "d", "a", "t", "e">>
      [] key = "category" -> <<"c", "a", "t", "e", "g", "o", "r", "y">>
      [] key = "status" -> <<"s", "t", "a", "t", "u", "s">>
      [] key = "description" ->
            <<"d", "e", "s", "c", "r", "i", "p", "t", "i", "o", "n">>
      [] key = "created_at" ->
            <<"c", "r", "e", "a", "t", "e", "d", "_", "a", "t">>
      [] key = "updated_at" ->
            <<"u", "p", "d", "a", "t", "e", "d", "_", "a", "t">>

\* save_user_tasks, per record: datetime values become ISO strings
Serializable(d) ==
    [key \in DOMAIN d |->
        IF key \in DateSlots /\ d[key].k = "dt" THEN IsoFormat(d[key].v)
        ELSE d[key]]

\* load_user_tasks, per record: a str value under a key containing 'date'
\* is replaced by the datetime it parses to
Revive(d) ==
    [key \in DOMAIN d |->
        IF key \in DateSlots /\ d[key].k = "str"
              /\ Contains(<<"d", "a", "t", "e">>, KeyText(key))
        THEN JDt(d[key].v)
        ELSE d[key]]

\* load_user_tasks on a store (f, st): a missing file gives [], and so does
\* a file json.load cannot parse (the exception is caught)
LoadUserTasks(f, st) ==
    IF st = "ok" THEN [i \in 1..Len(f) |-> Revive(f[i])]
    ELSE << >>

\* TaskManager.load_tasks at time t, when no record raises
LoadTasks(f, st, t) ==
    LET data == LoadUserTasks(f, st)
    IN  [i \in 1..Len(data) |-> FromDict(data[i], t)]

\* TaskManager.load_tasks: the list comprehension raises the KeyError of
\* the first record without a name
LoadRaises(f, st) ==
    LET data == LoadUserTasks(f, st)
    IN  \E i \in 1..Len(data) : MissingName(data[i])

\* TaskManager.save_tasks: the list handed to save_user_tasks
TasksData(ts) == [i \in 1..Len(ts) |-> ToDict(ts[i])]

\* how a save_user_tasks call can end: written; exception before the file is
\* opened for writing; exception after it was truncated
SaveOutcomes == {"ok", "denied", "torn"}

NoBackup == [st |-> "absent", content |-> << >>]

\* the empty dict of users, and data/users.json before its first save
NoUsers == << >>

NoUsersFile == [st |-> "absent", content |-> NoUsers]

\* datetime.now().strftime("%Y%m%d_%H%M%S"): the part of the backup file's
\* name that tells two backups apart; calls within one tick get one stamp
Stamp(t) == t

\* create_backup: copies the task file, if there is one, to a file named by
\* the time stamp; an exception of shutil.copy2 is caught and printed
CreateBackup ==
    IF fileState # "absent" /\ backupDir = "writable"
    THEN [backups EXCEPT ![Stamp(now)] =
             [st |-> fileState, content |-> file]]
    ELSE backups

\* save_user_tasks
SaveUserTasks(ts, out) ==
    /\ backups' = CreateBackup
    /\ UNCHANGED <<backupDir, users, usersFile>>
    /\ CASE out = "ok" ->
            /\ file' = [i \in 1..Len(ts) |-> Serializable(TasksData(ts)[i])]
            /\ fileState' = "ok"
            /\ saved' = ts
            /\ failures' = failures
         [] out = "denied" ->
            /\ failures < MaxFailures
            /\ failures' = failures + 1
            /\ UNCHANGED <<file, fileState, saved>>
         [] out = "torn" ->
            /\ failures < MaxFailures
            /\ failures' = failures + 1
            /\ file' = << >>
            /\ fileState' = "torn"
            /\ saved' = saved

----------------------------------------------------------------------------
(* TaskManager *)

Result(op, ok, msg) == [op |-> op, ok |-> ok, msg |-> msg]

\* a return that persists first, as the paths that changed the list do
RejectAfterSave(op, msg) ==
    /\ ret' = Result(op, FALSE, msg)
    /\ SaveUserTasks(tasks, "ok")
    /\ UNCHANGED <<tasks, now, nextId, answer>>

\* return False, "..." of add_task, update_task and delete_task before the
\* list is touched: nothing is assigned and save_tasks is not called
Reject(op, msg) ==
    /\ ret' = Result(op, FALSE, msg)
    /\ UNCHANGED <<tasks, file, fileState, saved, now, nextId, failures,
                 backups, backupDir, users, usersFile,
                 answer>>

\* a length check that also turns away a name of exactly 200 characters
TooLongFrom200(name) == Len(Strip(name)) >= MaxNameLen

\* len(name.strip()) > 200
TooLong(name) == Len(Strip(name)) > MaxNameLen

\* index of the first task with this id, 0 if none (get_task_by_id)
GetTaskById(ts, task_id) ==
    IF \E i \in 1..Len(ts) : ts[i].id = task_id
    THEN CHOOSE i \in 1..Len(ts) :
            /\ ts[i].id = task_id
            /\ \A j \in 1..(i - 1) : ts[j].id # task_id
    ELSE 0

\* list without the element at index i
RemoveAt(ts, i) == SubSeq(ts, 1, i - 1) \o SubSeq(ts, i + 1, Len(ts))

\* a rollback that forgets to take the appended task out again
AddRollbackKeeps(ts) == ts

\* add_task: rollback after a failed save, self.tasks.remove(task)
AddRollback(ts) == RemoveAt(ts, Len(ts))

\* add_task
AddTask(name, priority, due_date, category, description) ==
    /\ Len(tasks) < MaxTasks
    /\ nextId <= MaxIds
    /\ IF name = << >> \/ Strip(name) = << >>
       THEN Reject("add", "Task name cannot be empty")
       ELSE IF TooLong(name)
       THEN Reject("add", "Task name is too long (max 200 characters)")
       ELSE LET task == NewTask(nextId, Strip(name), priority, due_date,
                                category, "Pending", description, now)
                appended == Append(tasks, task)
            IN  \E out \in SaveOutcomes :
                /\ nextId' = nextId + 1
                /\ SaveUserTasks(appended, out)
                /\ IF out = "ok"
                   THEN /\ tasks' = appended
                        /\ ret' = Result("add", TRUE, "Task added successfully")
                   ELSE /\ tasks' = AddRollback(appended)
                        /\ ret' = Result("add", FALSE,
                                         "Failed to save task to database")
                /\ UNCHANGED <<now, answer>>

\* update_task, the loop over kwargs: setattr for every key that is an
\* attribute of the task and whose value is not None (None is supplied for
\* due_date only)
SetAttrs(task, kw) ==
    [key \in DictKeys |->
        IF key \in DOMAIN kw /\ ~(key = "due_date" /\ kw[key] = NoDate)
        THEN kw[key]
        ELSE task[key]]

\* update_task: 'name' in kwargs and kwargs['name']
NameGiven(kw) == "name" \in DOMAIN kw /\ kw.name # << >>

\* update_task: kwargs['name'] = name
Stripped(kw) ==
    IF NameGiven(kw) THEN [kw EXCEPT !.name = Strip(kw.name)] ELSE kw

\* update_task; op names the public method the call came through
UpdateTask(op, task_id, kw) ==
    LET i == GetTaskById(tasks, task_id)
    IN  IF i = 0
        THEN Reject(op, "Task not found")
        ELSE IF NameGiven(kw) /\ Strip(kw.name) = << >>
        THEN Reject(op, "Task name cannot be empty")
        ELSE IF NameGiven(kw) /\ TooLong(kw.name)
        THEN Reject(op, "Task name is too long (max 200 characters)")
        ELSE LET updated == [SetAttrs(tasks[i], Stripped(kw))
                                EXCEPT !.updated_at = now]
                 after == [tasks EXCEPT ![i] = updated]
             IN  \E out \in SaveOutcomes :
                 /\ SaveUserTasks(after, out)
                 /\ tasks' = after
                 /\ ret' = IF out = "ok"
                           THEN Result(op, TRUE, "Task updated successfully")
                           ELSE Result(op, FALSE, "Failed to save changes")
                 /\ UNCHANGED <<now, nextId, answer>>

\* mark_completed
MarkCompleted(task_id) ==
    UpdateTask("mark_completed", task_id, [status |-> "Completed"])

\* mark_pending
MarkPending(task_id) ==
    UpdateTask("mark_pending", task_id, [status |-> "Pending"])

\* delete_task: rollback after a failed save, self.tasks.append(task)
DeleteRollback(before, i) == Append(RemoveAt(before, i), before[i])

\* delete_task
DeleteTask(task_id) ==
    LET i == GetTaskById(tasks, task_id)
    IN  IF i = 0
        THEN Reject("delete", "Task not found")
        ELSE LET removed == RemoveAt(tasks, i)
             IN  \E out \in SaveOutcomes :
                 /\ SaveUserTasks(removed, out)
                 /\ IF out = "ok"
                    THEN /\ tasks' = removed
                         /\ ret' = Result("delete", TRUE,
                                          "Task deleted successfully")
                    ELSE /\ tasks' = DeleteRollback(tasks, i)
                         /\ ret' = Result("delete", FALSE,
                                          "Failed to save changes")
                 /\ UNCHANGED <<now, nextId, answer>>

\* [task for task in ts if task.status == status]
RECURSIVE GetTasksByStatus(_, _)
GetTasksByStatus(ts, status) ==
    IF ts = << >> THEN << >>
    ELSE IF Head(ts).status = status
         THEN <<Head(ts)>> \o GetTasksByStatus(Tail(ts), status)
         ELSE GetTasksByStatus(Tail(ts), status)

\* a filter that keeps the Pending tasks only
PendingOnly(ts) == GetTasksByStatus(ts, "Pending")

\* [task for task in ts if task.status != 'Completed']
RECURSIVE NotCompleted(_)
NotCompleted(ts) ==
    IF ts = << >> THEN << >>
    ELSE IF Head(ts).status # "Completed"
         THEN <<Head(ts)>> \o NotCompleted(Tail(ts))
         ELSE NotCompleted(Tail(ts))

\* an is_overdue that also takes a task due at this very instant
IsOverdueFromNow(task, t) ==
    IF task.due_date = NoDate \/ task.status = "Completed" THEN FALSE
    ELSE task.due_date <= t

\* Task.is_overdue at time t
IsOverdue(task, t) ==
    IF task.due_date = NoDate \/ task.status = "Completed" THEN FALSE
    ELSE task.due_date < t

\* datetime.date(): the calendar day of a tick
DateOf(t) == t \div DayLen

\* Task.days_until_due at time t: an Optional[int], << >> for None and
\* <<n>> for the int n
DaysUntilDue(task, t) ==
    IF task.due_date = NoDate THEN << >>
    ELSE <<DateOf(task.due_date) - DateOf(t)>>

\* get_overdue_tasks at time t
GetOverdueTasks(ts, t) ==
    LET Test(task) == IsOverdue(task, t) /\ task.status # "Completed"
    IN  SelectSeq(ts, Test)

\* a due-soon window measured in instants, from now to now + days
GetTasksDueSoonByInstant(ts, days, t) ==
    LET Test(task) ==
            /\ task.due_date # NoDate /\ task.status # "Completed"
            /\ t <= task.due_date
            /\ task.due_date <= t + days * DayLen
    IN  SelectSeq(ts, Test)

\* a due-soon window that opens one day early
GetTasksDueSoonSinceYesterday(ts, days, t) ==
    LET today == DateOf(t)
        Test(task) ==
            /\ task.due_date # NoDate /\ task.status # "Completed"
            /\ today - 1 <= DateOf(task.due_date)
            /\ DateOf(task.due_date) <= today + days
    IN  SelectSeq(ts, Test)

\* get_tasks_due_soon(days) at time t
GetTasksDueSoon(ts, days, t) ==
    LET today == DateOf(t)
        Test(task) ==
            /\ task.due_date # NoDate /\ task.status # "Completed"
            /\ today <= DateOf(task.due_date)
            /\ DateOf(task.due_date) <= today + days
    IN  SelectSeq(ts, Test)

\* a caller reads, at one instant, is_overdue() and days_until_due() of
\* every task, get_overdue_tasks() and get_tasks_due_soon(days)
Queries(days) ==
    /\ answer' = [days |-> days,
                  is_overdue |->
                      [i \in 1..Len(tasks) |-> IsOverdue(tasks[i], now)],
                  days_until_due |->
                      [i \in 1..Len(tasks) |-> DaysUntilDue(tasks[i], now)],
                  overdue |-> GetOverdueTasks(tasks, now),
                  due_soon |-> GetTasksDueSoon(tasks, days, now)]
    /\ ret' = Result("queries", TRUE, "")
    /\ UNCHANGED <<tasks, file, fileState, saved, now, nextId, failures,
                 backups, backupDir, users, usersFile>>

\* a pending count that takes every task that is not Completed
PendingAsRest(ts) == Len(ts) - Len(GetTasksByStatus(ts, "Completed"))

\* get_task_statistics: pending = len(self.get_tasks_by_status('Pending'))
PendingCount(ts) == Len(GetTasksByStatus(ts, "Pending"))

\* round(completed / total * 100, 2) in hundredths of a percent (to the
\* nearest hundredth), 0 for an empty collection
CompletionRate(completed, total) ==
    IF total > 0 THEN (2 * completed * 10000 + total) \div (2 * total) ELSE 0

\* number of tasks of ts whose field key has value v
CountOf(ts, key, v) == Cardinality({i \in 1..Len(ts) : ts[i][key] = v})

DueSoonDays == 3

\* get_task_statistics at time t
GetTaskStatistics(ts, t) ==
    LET total == Len(ts)
        completed == Len(GetTasksByStatus(ts, "Completed"))
    IN  [total_tasks |-> total,
         completed_tasks |-> completed,
         pending_tasks |-> PendingCount(ts),
         overdue_tasks |-> Len(GetOverdueTasks(ts, t)),
         due_soon_tasks |-> Len(GetTasksDueSoon(ts, DueSoonDays, t)),
         completion_rate |-> CompletionRate(completed, total),
         categories |->
             [c \in {ts[i].category : i \in 1..Len(ts)} |->
                 CountOf(ts, "category", c)],
         priorities |->
             [p \in {"High", "Medium", "Low"}
                     \cup {ts[i].priority : i \in 1..Len(ts)} |->
                 CountOf(ts, "priority", p)]]

\* a caller asks for the statistics
Statistics ==
    /\ answer' = GetTaskStatistics(tasks, now)
    /\ ret' = Result("statistics", TRUE, "")
    /\ UNCHANGED <<tasks, file, fileState, saved, now, nextId, failures,
                 backups, backupDir, users, usersFile>>

\* the characters of the model's texts in the order of their code points
CodeOrder == <<" ", "A", "B", "G", "W", "a", "b", "e", "k", "l", "n", "o",
               "r", "x">>

\* ord(c)
Ord(c) == CHOOSE k \in 1..Len(CodeOrder) : CodeOrder[k] = c

\* str.lower on one character
LowerChar(c) ==
    CASE c = "A" -> "a"
      [] c = "B" -> "b"
      [] c = "G" -> "g"
      [] c = "W" -> "w"
      [] OTHER -> c

\* str.lower
Lower(s) == [i \in 1..Len(s) |-> LowerChar(s[i])]

\* s < t on str: the first differing character decides, a proper prefix
\* is smaller
RECURSIVE StrLess(_, _)
StrLess(s, t) ==
    IF t = << >> THEN FALSE
    ELSE IF s = << >> THEN TRUE
    ELSE IF Head(s) = Head(t) THEN StrLess(Tail(s), Tail(t))
    ELSE Ord(Head(s)) < Ord(Head(t))

\* priority_order.get(x.priority, 3)
PriorityOrder(priority) ==
    CASE priority = "High" -> 0
      [] priority = "Medium" -> 1
      [] priority = "Low" -> 2
      [] OTHER -> 3

\* status_order.get(x.status, 4)
StatusOrder(status) ==
    CASE status = "Pending" -> 0
      [] status = "In Progress" -> 1
      [] status = "Completed" -> 2
      [] status = "Cancelled" -> 3
      [] OTHER -> 4

\* the keys sort_tasks knows
SortKeys == {"due_date", "priority", "name", "created_at", "status"}

\* sorted() places a before b for their keys alone: the key of a is smaller,
\* or, under reverse=True, greater; a task without due date has the key
\* datetime.max
KeyBefore(sort_by, a, b) ==
    CASE sort_by = "due_date" ->
            /\ a.due_date # NoDate
            /\ (b.due_date = NoDate \/ a.due_date < b.due_date)
      [] sort_by = "priority" ->
            PriorityOrder(a.priority) < PriorityOrder(b.priority)
      [] sort_by = "name" -> StrLess(Lower(a.name), Lower(b.name))
      [] sort_by = "created_at" -> a.created_at > b.created_at
      [] sort_by = "status" -> StatusOrder(a.status) < StatusOrder(b.status)

\* a sort that puts a task in front of the tasks with an equal key
RECURSIVE InsertBeforeEqual(_, _, _)
InsertBeforeEqual(x, s, sort_by) ==
    IF s = << >> THEN <<x>>
    ELSE IF ~KeyBefore(sort_by, Head(s), x) THEN <<x>> \o s
    ELSE <<Head(s)>> \o InsertBeforeEqual(x, Tail(s), sort_by)

\* sorted() is stable, with and without reverse=True: a task goes behind
\* the tasks sorted so far that its key does not precede
RECURSIVE Insert(_, _, _)
Insert(x, s, sort_by) ==
    IF s = << >> THEN <<x>>
    ELSE IF KeyBefore(sort_by, x, Head(s)) THEN <<x>> \o s
    ELSE <<Head(s)>> \o Insert(x, Tail(s), sort_by)

\* sorted(ts[:n], key=...)
RECURSIVE Sorted(_, _, _)
Sorted(ts, n, sort_by) ==
    IF n = 0 THEN << >>
    ELSE Insert(ts[n], Sorted(ts, n - 1, sort_by), sort_by)

\* sort_tasks: a new sorted list, or the list itself for another sort_by
SortTasks(ts, sort_by) ==
    IF sort_by \in SortKeys THEN Sorted(ts, Len(ts), sort_by) ELSE ts

\* a caller sorts a list of the manager's tasks
Sort(input, sort_by) ==
    /\ answer' = [input |-> input, sort_by |-> sort_by,
                  sorted |-> SortTasks(input, sort_by)]
    /\ ret' = Result("sort", TRUE, "")
    /\ UNCHANGED <<tasks, file, fileState, saved, now, nextId, failures,
                 backups, backupDir, users, usersFile>>

\* DatabaseManager.get_user_stats on a store (f, st): the counts of the
\* records load_user_tasks returns, pending being every record that is not
\* Completed
GetUserStats(f, st) ==
    LET data == LoadUserTasks(f, st)
        total == Len(data)
        completed == Cardinality({i \in 1..total :
                         /\ "status" \in DOMAIN data[i]
                         /\ data[i].status = "Completed"})
    IN  IF data = << >>
        THEN [total_tasks |-> 0, completed_tasks |-> 0, pending_tasks |-> 0,
              completion_rate |-> 0]
        ELSE [total_tasks |-> total,
              completed_tasks |-> completed,
              pending_tasks |-> total - completed,
              completion_rate |-> CompletionRate(completed, total)]

\* a caller asks the database for the user's statistics
UserStats ==
    /\ answer' = GetUserStats(file, fileState)
    /\ ret' = Result("user_stats", TRUE, "")
    /\ UNCHANGED <<tasks, file, fileState, saved, now, nextId, failures,
                 backups, backupDir, users, usersFile>>

\* clear_completed_tasks
ClearCompletedTasks ==
    IF GetTasksByStatus(tasks, "Completed") = << >>
    THEN /\ ret' = Result("clear", TRUE, "No completed tasks to remove")
         /\ UNCHANGED <<tasks, file, fileState, saved, now, nextId, failures,
                         backups, backupDir, users, usersFile,
                 answer>>
    ELSE \E out \in SaveOutcomes :
         /\ SaveUserTasks(NotCompleted(tasks), out)
         /\ IF out = "ok"
            THEN /\ tasks' = NotCompleted(tasks)
                 /\ ret' = Result("clear", TRUE, "Removed completed tasks")
            ELSE /\ tasks' = LoadTasks(file', fileState', now)
                 /\ ret' = Result("clear", FALSE, "Failed to save changes")
         /\ UNCHANGED <<now, nextId, answer>>

\* load_tasks called on the live manager (the GUI's refresh) or by the
\* constructor of the next session's TaskManager
Reload ==
    /\ IF LoadRaises(file, fileState)
       THEN /\ tasks' = tasks
            /\ ret' = Result("load", FALSE, "KeyError: 'name'")
       ELSE /\ tasks' = LoadTasks(file, fileState, now)
            /\ ret' = Result("load", TRUE, "")
    /\ UNCHANGED <<file, fileState, saved, now, nextId, failures, backups,
                 backupDir, users, usersFile, answer>>

\* time passes until the next calendar day begins
Midnight ==
    /\ DateOf(now) < MaxDays
    /\ now' = (DateOf(now) + 1) * DayLen
    /\ UNCHANGED <<tasks, file, fileState, saved, nextId, failures, backups,
                 backupDir, users, usersFile, answer, ret>>

\* time passes between calls
Tick ==
    /\ now < MaxNow
    /\ now' = now + 1
    /\ UNCHANGED <<tasks, file, fileState, saved, nextId, failures, backups,
                 backupDir, users, usersFile, answer, ret>>

----------------------------------------------------------------------------
(* Callers' arguments *)

NameArgs == {<< >>, <<" ">>, <<" ", "a">>, Fill(MaxNameLen + 1)}

\* due dates a caller passes: none, or the date one week after tick 0
DueArgs == {NoDate, DefaultDueDays * DayLen}

\* ids a caller can pass: those of the tasks it sees, and one that is no
\* task's id unless update_task put it there
IdArgs == {NoId} \cup {tasks[i].id : i \in 1..Len(tasks)}

UpdateArgs ==
    {[name |-> n] : n \in NameArgs}
    \cup {[id |-> NoId]}
    \cup {[due_date |-> d] : d \in DueArgs}

----------------------------------------------------------------------------
(* The system *)

\* TaskManager.__init__ of the first session: no task file exists yet.  The
\* manager never reads data/backups; here the directory takes no files, so
\* that create_backup leaves nothing behind (SpecDb covers the other case).
Init ==
    /\ tasks = << >>
    /\ file = << >>
    /\ fileState = "absent"
    /\ saved = << >>
    /\ now = 0
    /\ nextId = 1
    /\ failures = 0
    /\ backups = [stamp \in 0..MaxNow |-> NoBackup]
    /\ backupDir = "readonly"
    /\ users = NoUsers
    /\ usersFile = NoUsersFile
    /\ answer = << >>
    /\ ret = Result("init", TRUE, "")

Next ==
    \/ \E name \in NameArgs, due \in DueArgs :
          AddTask(name, "Medium", due, General, EmptyText)
    \/ \E id \in IdArgs, kw \in UpdateArgs : UpdateTask("update", id, kw)
    \/ \E id \in IdArgs : MarkCompleted(id)
    \/ \E id \in IdArgs : MarkPending(id)
    \/ \E id \in IdArgs : DeleteTask(id)
    \/ ClearCompletedTasks
    \/ Reload
    \/ Tick

Spec == Init /\ [][Next]_vars

----------------------------------------------------------------------------
(* The field-level behaviour of update_task, on a store that does not fail *)

Work == <<"W", "o", "r", "k">>

\* keyword arguments of update_task: single fields, a status outside the
\* vocabulary, None for the due date, and two fields at once
FieldArgs ==
    {[status |-> "Done"], [priority |-> "High"], [due_date |-> NoDate],
     [name |-> <<" ", "b">>, category |-> Work]}

\* a call during which save_user_tasks does not fail
Saving(call) == call /\ failures' = failures

NextFields ==
    \/ Saving(AddTask(<<"a">>, "Medium", NoDate, General, EmptyText))
    \/ \E id \in IdArgs, kw \in FieldArgs :
          Saving(UpdateTask("update", id, kw))
    \/ \E id \in IdArgs : Saving(MarkCompleted(id))
    \/ \E id \in IdArgs : Saving(MarkPending(id))
    \/ Reload
    \/ Tick

SpecFields == Init /\ [][NextFields]_vars

----------------------------------------------------------------------------
(* add_task at the limit of the name length *)

\* names of 200 and of 201 characters, bare and behind a leading blank
LenArgs ==
    {Fill(MaxNameLen), Fill(MaxNameLen + 1),
     <<" ">> \o Fill(MaxNameLen), <<" ">> \o Fill(MaxNameLen + 1)}

NextNames ==
    \/ \E name \in LenArgs, due \in DueArgs :
          AddTask(name, "Medium", due, General, EmptyText)
    \/ \E id \in IdArgs : DeleteTask(id)
    \/ Reload
    \/ Tick

SpecNames == Init /\ [][NextNames]_vars

----------------------------------------------------------------------------
(* Task.to_dict and Task.from_dict on one Task object *)

\* Task objects: the fields are plain attributes, so each can hold any value
\* of its type, a due_date of None included
TaskObjects ==
    {[NewTask(id, <<"a">>, priority, due, General, status, EmptyText, created)
         EXCEPT !.due_date = due, !.updated_at = updated] :
        id \in 1..MaxIds, priority \in {"High", "Medium"},
        due \in {NoDate} \cup (0..MaxNow), status \in Statuses,
        created \in 0..MaxNow, updated \in 0..MaxNow}

InitRoundTrip ==
    /\ tasks \in {<<t>> : t \in TaskObjects}
    /\ file = << >>
    /\ fileState = "absent"
    /\ saved = << >>
    /\ now = 0
    /\ nextId = 1
    /\ failures = 0
    /\ backups = [stamp \in 0..MaxNow |-> NoBackup]
    /\ backupDir = "readonly"
    /\ users = NoUsers
    /\ usersFile = NoUsersFile
    /\ answer = << >>
    /\ ret = Result("init", TRUE, "")

\* Task.from_dict(t.to_dict()) for the task t of the collection
RoundTrip ==
    /\ answer' = <<FromDict(ToDict(tasks[1]), now)>>
    /\ ret' = Result("round_trip", TRUE, "")
    /\ UNCHANGED <<tasks, file, fileState, saved, now, nextId, failures,
                 backups, backupDir, users, usersFile>>

NextRoundTrip ==
    \/ RoundTrip
    \/ Tick

SpecRoundTrip == InitRoundTrip /\ [][NextRoundTrip]_vars

----------------------------------------------------------------------------
(* load_tasks on a task file that was not written by save_user_tasks alone *)

\* a record as save_user_tasks writes it
StoredRecord(id) ==
    Serializable(ToDict(NewTask(id, <<"a">>, "High", 0, Work, "Completed",
                                EmptyText, 0)))

\* the same record without one of its keys
Without(d, key) == [k \in (DOMAIN d) \ {key} |-> d[k]]

\* stored records: well-formed, without name, with dates that are no
\* timestamps, without priority
StoredRecords(id) ==
    {StoredRecord(id),
     Without(StoredRecord(id), "name"),
     [StoredRecord(id) EXCEPT !.due_date = JBad, !.created_at = JBad],
     Without(StoredRecord(id), "priority")}

MaxRecords == 2

\* task files of up to MaxRecords records, the record at place i having id i
StoredFiles ==
    UNION {{f \in [1..n -> UNION {StoredRecords(id) : id \in 1..MaxRecords}] :
               \A i \in 1..n : f[i].id = i} : n \in 0..MaxRecords}

\* a session starts on a task file found in data/tasks
InitLoad ==
    /\ tasks = << >>
    /\ file \in StoredFiles
    /\ fileState = "ok"
    /\ saved = << >>
    /\ now = 0
    /\ nextId = MaxRecords + 1
    /\ failures = 0
    /\ backups = [stamp \in 0..MaxNow |-> NoBackup]
    /\ backupDir = "readonly"
    /\ users = NoUsers
    /\ usersFile = NoUsersFile
    /\ answer = << >>
    /\ ret = Result("init", TRUE, "")

NextLoad ==
    \/ Reload
    \/ \E id \in IdArgs : Saving(MarkCompleted(id))
    \/ \E id \in IdArgs : Saving(DeleteTask(id))
    \/ Tick

SpecLoad == InitLoad /\ [][NextLoad]_vars

----------------------------------------------------------------------------
(* save_user_tasks and the backups it leaves in data/backups *)

\* as Init, with a backup directory that may or may not take files
InitDb ==
    /\ tasks = << >>
    /\ file = << >>
    /\ fileState = "absent"
    /\ saved = << >>
    /\ now = 0
    /\ nextId = 1
    /\ failures = 0
    /\ backups = [stamp \in 0..MaxNow |-> NoBackup]
    /\ backupDir \in {"writable", "readonly"}
    /\ users = NoUsers
    /\ usersFile = NoUsersFile
    /\ answer = << >>
    /\ ret = Result("init", TRUE, "")

NextDb ==
    \/ \E due \in DueArgs :
          Saving(AddTask(<<"a">>, "Medium", due, General, EmptyText))
    \/ \E id \in IdArgs : Saving(MarkCompleted(id))
    \/ \E id \in IdArgs : Saving(MarkPending(id))
    \/ \E id \in IdArgs : Saving(DeleteTask(id))
    \/ Tick

SpecDb == InitDb /\ [][NextDb]_vars

----------------------------------------------------------------------------
(* get_task_statistics over collections of every status *)

\* collections of up to MaxTasks tasks of any status and due date, the
\* task at place i having id i
Collections ==
    UNION {{[i \in 1..n |->
                NewTask(i, <<"a">>, "Medium", due[i], General, status[i],
                        EmptyText, 0)] :
              status \in [1..n -> Statuses], due \in [1..n -> 0..MaxNow]} :
           n \in 0..MaxTasks}

\* a session whose collection was built, and saved, by earlier calls
InitStats ==
    /\ tasks \in Collections
    /\ file = [i \in 1..Len(tasks) |-> Serializable(ToDict(tasks[i]))]
    /\ fileState = "ok"
    /\ saved = tasks
    /\ now = 0
    /\ nextId = MaxTasks + 1
    /\ failures = 0
    /\ backups = [stamp \in 0..MaxNow |-> NoBackup]
    /\ backupDir = "readonly"
    /\ users = NoUsers
    /\ usersFile = NoUsersFile
    /\ answer = << >>
    /\ ret = Result("init", TRUE, "")

NextStats ==
    \/ Statistics
    \/ UserStats
    \/ \E id \in IdArgs : Saving(MarkCompleted(id))
    \/ Tick

SpecStats == InitStats /\ [][NextStats]_vars

----------------------------------------------------------------------------
(* The date queries, for tasks due on several days and asked at any time *)

\* the first and the last tick of the calendar days 0..n
DayEdges(n) ==
    UNION {{d * DayLen, d * DayLen + DayLen - 1} : d \in 0..n}

\* collections of up to MaxTasks tasks, each with no due date or due at an
\* edge of one of the days 0..MaxDays + 1, Pending or Completed
DatedCollections ==
    UNION {{[i \in 1..n |->
                [NewTask(i, <<"a">>, "Medium", due[i], General, status[i],
                         EmptyText, 0) EXCEPT !.due_date = due[i]]] :
              status \in [1..n -> {"Pending", "Completed"}],
              due \in [1..n -> {NoDate} \cup DayEdges(MaxDays + 1)]} :
           n \in 0..MaxTasks}

\* a session with a saved collection, at a time of one of the days
\* 0..MaxDays
InitQueries ==
    /\ tasks \in DatedCollections
    /\ file = [i \in 1..Len(tasks) |-> Serializable(ToDict(tasks[i]))]
    /\ fileState = "ok"
    /\ saved = tasks
    /\ now \in DayEdges(MaxDays)
    /\ nextId = MaxTasks + 1
    /\ failures = 0
    /\ backups = [stamp \in 0..MaxNow |-> NoBackup]
    /\ backupDir = "readonly"
    /\ users = NoUsers
    /\ usersFile = NoUsersFile
    /\ answer = << >>
    /\ ret = Result("init", TRUE, "")

NextQueries ==
    \/ \E days \in 0..MaxDays : Queries(days)
    \/ \E id \in IdArgs : Saving(MarkCompleted(id))

SpecQueries == InitQueries /\ [][NextQueries]_vars

----------------------------------------------------------------------------
(* Tasks added without a due date, asked for on that day and on later ones *)

NextDue ==
    \/ Saving(AddTask(<<"a">>, "Medium", NoDate, General, EmptyText))
    \/ \E days \in {DefaultDueDays - 1, DefaultDueDays} : Queries(days)
    \/ Reload
    \/ Tick
    \/ Midnight

SpecDue == Init /\ [][NextDue]_vars

----------------------------------------------------------------------------
(* clear_completed_tasks on collections of every status *)

\* collections of up to MaxTasks + 1 tasks of any status, the task at
\* place i having id i
StatusCollections ==
    UNION {{[i \in 1..n |->
                NewTask(i, <<"a">>, "Medium", NoDate, General, status[i],
                        EmptyText, 0)] :
              status \in [1..n -> Statuses]} :
           n \in 0..(MaxTasks + 1)}

\* a session whose collection was built, and saved, by earlier calls
InitClear ==
    /\ tasks \in StatusCollections
    /\ file = [i \in 1..Len(tasks) |-> Serializable(ToDict(tasks[i]))]
    /\ fileState = "ok"
    /\ saved = tasks
    /\ now = 0
    /\ nextId = Len(tasks) + 1
    /\ failures = 0
    /\ backups = [stamp \in 0..MaxNow |-> NoBackup]
    /\ backupDir = "readonly"
    /\ users = NoUsers
    /\ usersFile = NoUsersFile
    /\ answer = << >>
    /\ ret = Result("init", TRUE, "")

NextClear ==
    \/ ClearCompletedTasks
    \/ Saving(AddTask(<<"a">>, "Medium", NoDate, General, EmptyText))
    \/ \E id \in IdArgs : Saving(MarkCompleted(id))
    \/ Tick

SpecClear == InitClear /\ [][NextClear]_vars

----------------------------------------------------------------------------
(* sort_tasks on lists of the manager's tasks, in any order *)

\* the tasks of the collections below differ in one field
SortFields == {"priority", "status", "due_date", "name", "created_at"}

\* the values of a field; a priority and a status no table of sort_tasks
\* lists are among them, and created_at grows along the collection
FieldValues(field, n) ==
    CASE field = "priority" -> [1..n -> {"High", "Medium", "Low", "Urgent"}]
      [] field = "status" -> [1..n -> Statuses \cup {"Archived"}]
      [] field = "due_date" -> [1..n -> {NoDate} \cup 0..MaxNow]
      [] field = "name" -> [1..n -> {<<"a">>, <<"B">>, <<"b">>, <<"a", "b">>}]
      [] field = "created_at" ->
            {c \in [1..n -> 0..MaxNow] :
                \A i, j \in 1..n : i < j => c[i] <= c[j]}

\* the task with id i whose field has the value v
SortTask(i, field, v) ==
    LET task == [NewTask(i, <<"a">>, "Medium", NoDate, General, "Pending",
                         EmptyText, 0) EXCEPT ![field] = v]
    IN  IF field = "created_at" THEN [task EXCEPT !.updated_at = v] ELSE task

\* collections of up to MaxTasks + 1 tasks
SortCollections ==
    UNION {{[i \in 1..n |-> SortTask(i, field, v[i])] :
              v \in FieldValues(field, n)} :
           n \in 0..(MaxTasks + 1), field \in SortFields}

\* the lists that hold the tasks of ts in any order
Orders(ts) ==
    LET n == Len(ts)
    IN  {[k \in 1..n |-> ts[p[k]]] :
           p \in {q \in [1..n -> 1..n] : \A i \in 1..n : \E k \in 1..n : q[k] = i}}

\* a session whose collection was built, and saved, by earlier calls
InitSort ==
    /\ tasks \in SortCollections
    /\ file = [i \in 1..Len(tasks) |-> Serializable(ToDict(tasks[i]))]
    /\ fileState = "ok"
    /\ saved = tasks
    /\ now = MaxNow
    /\ nextId = Len(tasks) + 1
    /\ failures = 0
    /\ backups = [stamp \in 0..MaxNow |-> NoBackup]
    /\ backupDir = "readonly"
    /\ users = NoUsers
    /\ usersFile = NoUsersFile
    /\ answer = << >>
    /\ ret = Result("init", TRUE, "")

NextSort ==
    \E input \in Orders(tasks), sort_by \in SortKeys \cup {"id"} :
        Sort(input, sort_by)

SpecSort == InitSort /\ [][NextSort]_vars

----------------------------------------------------------------------------
(* UserManager: the accounts, kept in memory and in data/users.json *)

MinUsernameLen == 3      \* len(username) < 3
MaxUsernameLen == 20     \* len(username) > 20
MinPasswordLen == 6      \* len(password) < 6
MaxPasswordLen == 50     \* len(password) > 50

\* the characters of the model's texts for which str.isalpha holds, and
\* those for which str.isdigit holds
Letters == {"A", "B", "G", "W", "a", "b", "e", "k", "l", "n", "o", "r", "x"}

Digits == {"1", "2", "3"}

\* str.isalnum: at least one character, and every one a letter or a digit
IsAlnum(s) == s # << >> /\ \A i \in 1..Len(s) : s[i] \in Letters \cup Digits

\* validate_username
ValidateUsername(us, username) ==
    LET name == Strip(username)
    IN  IF name = << >>
        THEN [ok |-> FALSE, msg |-> "Username cannot be empty"]
        ELSE IF Len(name) < MinUsernameLen
        THEN [ok |-> FALSE, msg |-> "Username must be at least 3 characters"]
        ELSE IF Len(name) > MaxUsernameLen
        THEN [ok |-> FALSE, msg |-> "Username cannot exceed 20 characters"]
        ELSE IF ~IsAlnum(name) /\ ~Contains(<<"_">>, name)
        THEN [ok |-> FALSE,
              msg |-> "Username can only contain letters, numbers, and underscores"]
        ELSE IF name \in DOMAIN us
        THEN [ok |-> FALSE, msg |-> "Username already exists"]
        ELSE [ok |-> TRUE, msg |-> "Username is valid"]

\* validate_password
ValidatePassword(password) ==
    IF password = << >>
    THEN [ok |-> FALSE, msg |-> "Password cannot be empty"]
    ELSE IF Len(password) < MinPasswordLen
    THEN [ok |-> FALSE, msg |-> "Password must be at least 6 characters"]
    ELSE IF Len(password) > MaxPasswordLen
    THEN [ok |-> FALSE, msg |-> "Password is too long (max 50 characters)"]
    ELSE IF ~\E i \in 1..Len(password) : password[i] \in Digits
    THEN [ok |-> FALSE, msg |-> "Password must contain at least one number"]
    ELSE IF ~\E i \in 1..Len(password) : password[i] \in Letters
    THEN [ok |-> FALSE, msg |-> "Password must contain at least one letter"]
    ELSE [ok |-> TRUE, msg |-> "Password is valid"]

\* hash_password: the SHA-256 digest of the password followed by the
\* pepper; two texts have one digest only if they are one text
Pepper == <<"p", "e", "p", "p", "e", "r">>

HashPassword(password) == [sha256 |-> password \o Pepper]

\* the record register_user creates at time t
UserRecord(password, t) ==
    [password_hash |-> HashPassword(password),
     created_at |-> IsoFormat(t),
     last_login |-> JNull,
     task_count |-> 0,
     completed_tasks |-> 0]

\* self.users[key] = rec, and del self.users[key]
Put(us, key, rec) ==
    [k \in (DOMAIN us) \cup {key} |-> IF k = key THEN rec ELSE us[k]]

Del(us, key) == [k \in (DOMAIN us) \ {key} |-> us[k]]

\* data/users.json after save_users wrote us with the outcome out: the
\* file is opened with mode "w", which empties it, before json.dump writes
Written(f, us, out) ==
    CASE out = "ok" -> [st |-> "ok", content |-> us]
      [] out = "denied" -> f
      [] out = "torn" -> [st |-> "torn", content |-> NoUsers]

\* 1 for a save that failed
Failed(out) == IF out = "ok" THEN 0 ELSE 1

\* load_users: a missing file and one json.load cannot parse give {}
LoadUsers(f) == IF f.st = "ok" THEN f.content ELSE NoUsers

\* the checks of authenticate_user
CheckLogin(us, username, password) ==
    LET name == Strip(username)
    IN  IF name = << >>
        THEN [ok |-> FALSE, msg |-> "Please enter username"]
        ELSE IF password = << >>
        THEN [ok |-> FALSE, msg |-> "Please enter password"]
        ELSE IF name \notin DOMAIN us
        THEN [ok |-> FALSE, msg |-> "User not found"]
        ELSE IF us[name].password_hash # HashPassword(password)
        THEN [ok |-> FALSE, msg |-> "Incorrect password"]
        ELSE [ok |-> TRUE, msg |-> "Welcome back"]

\* self.users[username]['last_login'] = datetime.now().isoformat()
LoggedIn(us, name, t) == [us EXCEPT ![name].last_login = IsoFormat(t)]

\* return False, message before self.users is touched
UserReject(op, msg) ==
    /\ ret' = Result(op, FALSE, msg)
    /\ UNCHANGED <<tasks, file, fileState, saved, now, nextId, failures,
                 backups, backupDir, users, usersFile, answer>>

\* register_user: the record is stored under the name as given, and
\* deleted again when save_users fails
RegisterUser(username, password) ==
    LET name == ValidateUsername(users, username)
        pass == ValidatePassword(password)
        added == Put(users, username, UserRecord(password, now))
    IN  IF ~name.ok THEN UserReject("register", name.msg)
        ELSE IF ~pass.ok THEN UserReject("register", pass.msg)
        ELSE \E out \in SaveOutcomes :
             /\ failures + Failed(out) <= MaxFailures
             /\ failures' = failures + Failed(out)
             /\ usersFile' = Written(usersFile, added, out)
             /\ IF out = "ok"
                THEN /\ users' = added
                     /\ ret' = Result("register", TRUE,
                                      "User registered successfully!")
                ELSE /\ users' = Del(added, username)
                     /\ ret' = Result("register", FALSE,
                                      "Failed to save user data")
             /\ UNCHANGED <<tasks, file, fileState, saved, now, nextId,
                            backups, backupDir, answer>>

\* authenticate_user: the result of its save_users call is not looked at
AuthenticateUser(username, password) ==
    LET login == CheckLogin(users, username, password)
        logged == LoggedIn(users, Strip(username), now)
    IN  IF ~login.ok THEN UserReject("authenticate", login.msg)
        ELSE \E out \in SaveOutcomes :
             /\ failures + Failed(out) <= MaxFailures
             /\ failures' = failures + Failed(out)
             /\ users' = logged
             /\ usersFile' = Written(usersFile, logged, out)
             /\ ret' = Result("authenticate", TRUE, login.msg)
             /\ UNCHANGED <<tasks, file, fileState, saved, now, nextId,
                            backups, backupDir, answer>>

\* the user whose tasks the TaskManager holds: file is this user's file
SessionUser == <<"a", "b", "x">>

\* delete_user: authenticate_user, then del self.users[username] (a
\* KeyError, caught, when the name as given is no key), then save_users,
\* and after a save that succeeded os.remove of the user's task file
DeleteUser(username, password) ==
    LET login == CheckLogin(users, username, password)
        logged == LoggedIn(users, Strip(username), now)
        left == Del(logged, username)
    IN  IF ~login.ok THEN UserReject("delete_user", login.msg)
        ELSE \E out1 \in SaveOutcomes :
             LET f1 == Written(usersFile, logged, out1)
             IN  IF username \notin DOMAIN logged
                 THEN /\ failures + Failed(out1) <= MaxFailures
                      /\ failures' = failures + Failed(out1)
                      /\ users' = logged
                      /\ usersFile' = f1
                      /\ ret' = Result("delete_user", FALSE,
                                       "Error deleting user")
                      /\ UNCHANGED <<tasks, file, fileState, saved, now,
                                     nextId, backups, backupDir, answer>>
                 ELSE \E out2 \in SaveOutcomes :
                      /\ failures + Failed(out1) + Failed(out2) <= MaxFailures
                      /\ failures' = failures + Failed(out1) + Failed(out2)
                      /\ users' = left
                      /\ usersFile' = Written(f1, left, out2)
                      /\ IF out2 = "ok"
                         THEN /\ ret' = Result("delete_user", TRUE,
                                               "User deleted successfully")
                              /\ IF username = SessionUser
                                 THEN file' = << >> /\ fileState' = "absent"
                                 ELSE UNCHANGED <<file, fileState>>
                         ELSE /\ ret' = Result("delete_user", FALSE,
                                               "Failed to save changes")
                              /\ UNCHANGED <<file, fileState>>
                      /\ UNCHANGED <<tasks, saved, now, nextId, backups,
                                     backupDir, answer>>

\* UserManager() of the next session: self.users = self.load_users()
LoadUsersAgain ==
    /\ users' = LoadUsers(usersFile)
    /\ ret' = Result("load_users", TRUE, "")
    /\ UNCHANGED <<tasks, file, fileState, saved, now, nextId, failures,
                 backups, backupDir, usersFile, answer>>

\* usernames: empty, too short, good, padded, with an underscore and
\* another character, with another character only, too long
UsernameArgs ==
    {<< >>, <<"a", "b">>, SessionUser, <<" ">> \o SessionUser,
     <<"a", "_", "!">>, <<"a", "!", "b">>, Fill(MaxUsernameLen + 1)}

GoodPassword == <<"a", "b", "x", "1", "2", "3">>

\* passwords: empty, too short, without digit, without letter, good, too
\* long
PasswordArgs ==
    {<< >>, <<"a", "1">>, <<"a", "b", "x", "a", "b", "x">>,
     <<"1", "2", "3", "1", "2", "3">>, GoodPassword,
     Fill(MaxPasswordLen + 1)}

\* passwords at login: empty, the good one, another one
LoginArgs == {<< >>, GoodPassword, <<"x", "b", "a", "3", "2", "1">>}

NextUsers ==
    \/ \E username \in UsernameArgs, password \in PasswordArgs :
          RegisterUser(username, password)
    \/ \E username \in UsernameArgs, password \in LoginArgs :
          AuthenticateUser(username, password)
    \/ \E username \in UsernameArgs, password \in LoginArgs :
          DeleteUser(username, password)
    \/ LoadUsersAgain
    \/ Saving(AddTask(<<"a">>, "Medium", NoDate, General, EmptyText))

SpecUsers == Init /\ [][NextUsers]_vars

----------------------------------------------------------------------------
(* Properties *)

UpdateOps == {"update", "mark_completed", "mark_pending"}

MutationOps == UpdateOps \cup {"add", "delete", "clear"}

Ids(ts) == [i \in 1..Len(ts) |-> ts[i].id]

\* C1: at the return of every mutation call the in-memory collection (same
\* tasks, same field values, same order) equals the collection last
\* successfully written to the store.
C1_MemoryEqualsLastSaved ==
    ret.op \in MutationOps => tasks = saved

\* C2: when the save made by update_task, mark_completed or mark_pending
\* fails, the call reports failure and every field of the targeted task
\* (the only one the call touches), updated_at included, is as before.
C2_UpdateRolledBack ==
    [][(ret'.op \in UpdateOps /\ ret'.msg = "Failed to save changes")
          => (~ret'.ok /\ tasks' = tasks)]_vars

\* C3: a load_tasks that follows a successful save yields the saved
\* collection: same tasks, same order, all nine fields identical.
C3_SaveLoadRoundTrip ==
    [][(Reload /\ fileState = "ok") => tasks' = saved]_vars

\* C4: when the save made by delete_task fails, the call reports failure
\* and the collection is exactly as before the call, the task that was to
\* be deleted at its original position.
C4_DeleteRolledBack ==
    [][(ret'.op = "delete" /\ ret'.msg = "Failed to save changes")
          => (~ret'.ok /\ tasks' = tasks)]_vars

\* C5: when the save made by add_task fails, the call reports failure, the
\* new task is not in the collection afterward, and the collection is
\* otherwise identical (same tasks, same order) to its pre-call state.
C5_AddRolledBack ==
    [][(ret'.op = "add" /\ ret'.msg = "Failed to save task to database")
          => /\ ~ret'.ok
             /\ \A i \in 1..Len(tasks') : tasks'[i].id # nextId
             /\ tasks' = tasks]_vars

\* a failed add_task has returned to a caller whose collection is not empty
C5_Witness ==
    /\ ret.op = "add"
    /\ ret.msg = "Failed to save task to database"
    /\ Len(tasks) >= 1

\* C6: when clear_completed_tasks finds a Completed task and its save
\* fails, the call reports failure and afterward every task that was in
\* the collection before the call is present again with the same fields.
C6_ClearFailureRestores ==
    [][(ret'.op = "clear" /\ ret'.msg = "Failed to save changes")
          => /\ ~ret'.ok
             /\ \A i \in 1..Len(tasks) :
                   \E j \in 1..Len(tasks') : tasks'[j] = tasks[i]]_vars

\* C7: every task in the collection has a non-empty name of at most 200
\* characters.
C7_NameInvariant ==
    \A i \in 1..Len(tasks) :
        /\ tasks[i].name # << >>
        /\ Len(tasks[i].name) <= MaxNameLen

\* C8: update_task(id, name="") on an existing task returns failure and
\* leaves the task's name and updated_at unchanged.
C8_EmptyNameUpdateFails ==
    [][\A id \in IdArgs :
          (GetTaskById(tasks, id) # 0
              /\ UpdateTask("update", id, [name |-> << >>]))
          => LET i == GetTaskById(tasks, id)
             IN  /\ ~ret'.ok
                 /\ tasks'[i].name = tasks[i].name
                 /\ tasks'[i].updated_at = tasks[i].updated_at]_vars

\* C9: no call to update_task, mark_completed or mark_pending changes the
\* id of any task.
C9_IdImmutable ==
    [][ret'.op \in UpdateOps => Ids(tasks') = Ids(tasks)]_vars

\* C10: no two tasks of the in-memory collection have the same id.
C10_IdsUnique ==
    \A i, j \in 1..Len(tasks) : i # j => tasks[i].id # tasks[j].id

\* C11: every task's status is one of Pending, In Progress, Completed,
\* Cancelled.
C11_StatusInvariant ==
    \A i \in 1..Len(tasks) : tasks[i].status \in Statuses

\* the messages of the returns made before any mutation
RejectMsgs ==
    {"Task name cannot be empty",
     "Task name is too long (max 200 characters)",
     "Task not found"}

\* C12: when add_task or update_task returns a validation failure, or
\* update_task or delete_task returns "Task not found", the in-memory
\* collection and the store are unchanged and no save was attempted (no
\* file written, no backup made, no save failure counted).
C12_FailureBeforeMutation ==
    [][(ret'.op \in MutationOps /\ ret'.msg \in RejectMsgs)
          => /\ ~ret'.ok
             /\ tasks' = tasks
             /\ file' = file /\ fileState' = fileState
             /\ saved' = saved /\ failures' = failures
             /\ backups' = backups]_vars

\* a call was rejected while the collection holds a task that the store
\* does not have in that form
C12_Witness ==
    /\ ret.op \in MutationOps
    /\ ret.msg \in RejectMsgs
    /\ tasks # << >>
    /\ tasks # saved

\* add_task made the list one longer, the new task last
Appended(before, after) ==
    /\ Len(after) = Len(before) + 1
    /\ SubSeq(after, 1, Len(before)) = before

\* C13 as stated: for every name the caller supplies, add_task fails with
\* a validation message when the name has 201 characters or more, and when
\* the name has 200 characters and the save succeeds it succeeds and
\* appends the new task at the end of the collection.
C13_NameLengthBoundary ==
    [][\A name \in LenArgs, due \in DueArgs :
          AddTask(name, "Medium", due, General, EmptyText)
          => /\ Len(name) >= MaxNameLen + 1
                  => (~ret'.ok /\ ret'.msg \in RejectMsgs)
             /\ (Len(name) = MaxNameLen /\ failures' = failures)
                  => (ret'.ok /\ Appended(tasks, tasks'))]_vars

\* C13 amended: the length that counts is that of the name without its
\* leading and trailing whitespace; the appended task carries that name.
C13_StrippedLengthBoundary ==
    [][\A name \in LenArgs, due \in DueArgs :
          AddTask(name, "Medium", due, General, EmptyText)
          => /\ Len(Strip(name)) >= MaxNameLen + 1
                  => /\ ~ret'.ok
                     /\ ret'.msg = "Task name is too long (max 200 characters)"
                     /\ tasks' = tasks
             /\ (Len(Strip(name)) = MaxNameLen /\ failures' = failures)
                  => /\ ret'.ok
                     /\ Appended(tasks, tasks')
                     /\ tasks'[Len(tasks')].name = Strip(name)]_vars

\* a name of 200 characters is in the collection and a longer one was
\* just turned away
C13_Witness ==
    /\ ret.op = "add"
    /\ ret.msg = "Task name is too long (max 200 characters)"
    /\ tasks # << >>
    /\ Len(tasks[Len(tasks)].name) = MaxNameLen

\* the value update_task is given for a field; a name counts without its
\* leading and trailing whitespace
Given(kw, key) == IF key = "name" THEN Strip(kw.name) ELSE kw[key]

\* C14: a successful update_task(id, fields) changes, on the task with that
\* id, only the fields provided, each to the provided value, and sets
\* updated_at to the time of the call; the fields not provided, the other
\* tasks and the order of the collection stay as they were.
C14_PartialUpdateFrame ==
    [][\A id \in IdArgs, kw \in FieldArgs :
          (UpdateTask("update", id, kw) /\ ret'.ok)
          => LET i == GetTaskById(tasks, id)
             IN  /\ Len(tasks') = Len(tasks)
                 /\ \A j \in 1..Len(tasks) : j # i => tasks'[j] = tasks[j]
                 /\ \A key \in DictKeys \ {"updated_at"} :
                       tasks'[i][key] = IF key \in DOMAIN kw
                                        THEN Given(kw, key)
                                        ELSE tasks[i][key]
                 /\ tasks'[i].updated_at = now]_vars

\* C15: update_task(id, due_date=None) on an existing task succeeds and
\* leaves the task without a due date, and the task still has none in the
\* collection that load_tasks builds from the file this call wrote.
C15_DueDateCleared ==
    [][\A id \in IdArgs :
          (GetTaskById(tasks, id) # 0
              /\ UpdateTask("update", id, [due_date |-> NoDate]))
          => LET i == GetTaskById(tasks, id)
             IN  /\ ret'.ok
                 /\ tasks'[i].due_date = NoDate
                 /\ LoadTasks(file', fileState', now)[i].due_date = NoDate]_vars

\* C16: for any Task t, one whose due_date is absent included,
\* Task.from_dict(t.to_dict()) has the same id, name, priority, category,
\* status, description, due_date, created_at and updated_at as t.
C16_EntityRoundTrip ==
    ret.op = "round_trip" => \A key \in DictKeys : answer[1][key] = tasks[1][key]

\* a record with its name and with dates that parse
WellFormed(d) ==
    /\ DOMAIN d = DictKeys
    /\ \A key \in DateSlots : d[key].k \in {"str", "null"}

\* C17: load_tasks does not abort because of a malformed stored record (no
\* name, or a date that does not parse), and every well-formed record of
\* the store is in the collection after the load.
C17_LoadTolerance ==
    [][Reload => /\ ret'.ok
                 /\ \A i \in 1..Len(file) :
                       WellFormed(file[i])
                       => \E j \in 1..Len(tasks') : tasks'[j].id = file[i].id]_vars

\* C18: whenever save_user_tasks returns failure the task file is exactly
\* what it was before the call, so a later load still yields what was
\* stored.
C18_AllOrNothingWrite ==
    [][failures' = failures + 1
          => /\ file' = file
             /\ fileState' = fileState
             /\ LoadUserTasks(file', fileState') = LoadUserTasks(file, fileState)]_vars

\* the backup files there are, by content
BackedUp(bs) == {bs[stamp] : stamp \in DOMAIN bs} \ {NoBackup}

\* C19: when save_user_tasks overwrites an existing task file, a backup
\* holding the content the file had right before exists afterward, and
\* the backups of earlier versions are still there (so two successive
\* saves leave both prior versions backed up).
C19_BackupBeforeOverwrite ==
    [][(fileState # "absent" /\ file' # file)
          => /\ [st |-> fileState, content |-> file] \in BackedUp(backups')
             /\ BackedUp(backups) \subseteq BackedUp(backups')]_vars

Picked(ts, idx) ==
    [k \in 1..Cardinality(idx) |->
        ts[CHOOSE i \in idx : Cardinality({j \in idx : j < i}) = k - 1]]

\* C21: is_overdue() is true iff the task has a due date, is not Completed
\* and the due date is strictly before the current time; get_overdue_tasks
\* returns exactly those tasks in collection order, so never a Completed
\* one.
C21_OverdueDefinition ==
    ret.op = "queries"
        => LET late == {i \in 1..Len(tasks) :
                           /\ tasks[i].due_date # NoDate
                           /\ tasks[i].status # "Completed"
                           /\ tasks[i].due_date < now}
           IN  /\ \A i \in 1..Len(tasks) : answer.is_overdue[i] = (i \in late)
               /\ answer.overdue = Picked(tasks, late)
               /\ \A k \in 1..Len(answer.overdue) :
                     answer.overdue[k].status # "Completed"

\* the queries were made of a collection with a task that mark_completed
\* completed after its due date and a task that is overdue
C21_Witness ==
    /\ ret.op = "queries"
    /\ Len(answer.overdue) >= 1
    /\ \E i, j \in 1..Len(tasks) :
          /\ tasks[i].status = "Completed" /\ tasks[i].updated_at > 0
          /\ tasks[i].due_date # NoDate /\ tasks[i].due_date < now
          /\ tasks[j].status = "Pending"

\* d is the calendar day of the instant t
OnDay(t, d) == d * DayLen <= t /\ t < (d + 1) * DayLen

\* C22: a task is in get_tasks_due_soon(days) iff it is not Completed, has
\* a due date and 0 <= days_until_due() <= days; days_until_due() is the
\* number of calendar days from today to the day of the due date, whatever
\* the times of day (0 for a task due at this instant), and None without a
\* due date; the result is in collection order.
C22_DueSoonWindow ==
    ret.op = "queries"
        => LET until == answer.days_until_due
               soon == {i \in 1..Len(tasks) :
                           /\ tasks[i].status # "Completed"
                           /\ tasks[i].due_date # NoDate
                           /\ until[i] # << >>
                           /\ 0 <= until[i][1]
                           /\ until[i][1] <= answer.days}
           IN  /\ answer.due_soon = Picked(tasks, soon)
               /\ \A i \in 1..Len(tasks) :
                     IF tasks[i].due_date = NoDate THEN until[i] = << >>
                     ELSE /\ \E d1, d2 \in 0..(MaxDays + 1) :
                               /\ OnDay(tasks[i].due_date, d1)
                               /\ OnDay(now, d2)
                               /\ until[i] = <<d1 - d2>>
                          /\ tasks[i].due_date = now => until[i] = <<0>>

\* due-soon was asked of a collection with a task due earlier today, which
\* is in the answer, and a task due after the window
C22_Witness ==
    /\ ret.op = "queries"
    /\ \E i, j \in 1..Len(tasks) :
          /\ tasks[i].status = "Pending"
          /\ tasks[i].due_date # NoDate /\ tasks[i].due_date < now
          /\ answer.days_until_due[i] = <<0>>
          /\ answer.due_soon = <<tasks[i]>>
          /\ tasks[j].status = "Pending"
          /\ tasks[j].due_date > now + answer.days * DayLen

\* the task with this id is in the list
Returned(list, id) == \E k \in 1..Len(list) : list[k].id = id

\* C28: a task is returned by both get_overdue_tasks and
\* get_tasks_due_soon(days) at one instant only if it is due today at a
\* time of day earlier than now; a task due on an earlier calendar day is
\* never due-soon and one due on a later day is never overdue.
C28_OverdueVersusDueSoon ==
    ret.op = "queries"
        => \A i \in 1..Len(tasks), d1, d2 \in 0..(MaxDays + 1) :
              (/\ tasks[i].due_date # NoDate
               /\ OnDay(tasks[i].due_date, d1)
               /\ OnDay(now, d2))
              => /\ (/\ Returned(answer.overdue, tasks[i].id)
                      /\ Returned(answer.due_soon, tasks[i].id))
                     => (d1 = d2 /\ tasks[i].due_date < now)
                 /\ d1 < d2 => ~Returned(answer.due_soon, tasks[i].id)
                 /\ d1 > d2 => ~Returned(answer.overdue, tasks[i].id)

\* a task due earlier today is in both answers, next to a task due on an
\* earlier day that is overdue only
C28_Witness ==
    /\ ret.op = "queries"
    /\ \E i, j \in 1..Len(tasks) :
          /\ Returned(answer.overdue, tasks[i].id)
          /\ Returned(answer.due_soon, tasks[i].id)
          /\ Returned(answer.overdue, tasks[j].id)
          /\ ~Returned(answer.due_soon, tasks[j].id)

\* C23: a task added with no due date is stored, in memory and in the task
\* file, with due_date = its creation time + 7 days; asked on the day of
\* its creation, get_tasks_due_soon(7) includes it and
\* get_tasks_due_soon(6) does not.
C23_DefaultDueDate ==
    [][/\ (AddTask(<<"a">>, "Medium", NoDate, General, EmptyText) /\ ret'.ok)
           => LET task == tasks'[Len(tasks')]
              IN  /\ task.created_at = now
                  /\ task.due_date = task.created_at + 7 * DayLen
                  /\ file'[Len(file')].due_date
                        = IsoFormat(task.created_at + 7 * DayLen)
       /\ ret'.op = "queries"
           => \A i \in 1..Len(tasks') :
                 (\E d \in 0..MaxDays :
                     OnDay(tasks'[i].created_at, d) /\ OnDay(now', d))
                 => /\ answer'.days = 7
                        => Returned(answer'.due_soon, tasks'[i].id)
                    /\ answer'.days = 6
                        => ~Returned(answer'.due_soon, tasks'[i].id)]_vars

\* get_tasks_due_soon(6) was asked of a task added today, which it leaves
\* out, and of a task added on an earlier day, which it returns
C23_Witness ==
    /\ ret.op = "queries"
    /\ answer.days = 6
    /\ \E i, j \in 1..Len(tasks) :
          /\ DateOf(tasks[i].created_at) = DateOf(now)
          /\ ~Returned(answer.due_soon, tasks[i].id)
          /\ DateOf(tasks[j].created_at) < DateOf(now)
          /\ Returned(answer.due_soon, tasks[j].id)

\* C24: when its save succeeds, clear_completed_tasks leaves exactly the
\* tasks that were not Completed, in their prior order; when no task is
\* Completed it returns success with its own message and changes nothing.
C24_ClearCompletedSuccess ==
    [][ClearCompletedTasks
          => LET kept == {i \in 1..Len(tasks) : tasks[i].status # "Completed"}
             IN  IF kept = 1..Len(tasks)
                 THEN /\ ret'.ok
                      /\ ret'.msg = "No completed tasks to remove"
                      /\ tasks' = tasks
                      /\ file' = file /\ fileState' = fileState
                 ELSE failures' = failures
                      => /\ ret'.ok
                         /\ ret'.msg # "No completed tasks to remove"
                         /\ tasks' = Picked(tasks, kept)
                         /\ \A k \in 1..Len(tasks') :
                               tasks'[k].status # "Completed"]_vars

\* clear_completed_tasks removed what was Completed, at a later time than
\* the session began, and left two tasks behind
C24_Witness ==
    /\ ret.op = "clear"
    /\ ret.ok
    /\ ret.msg # "No completed tasks to remove"
    /\ Len(tasks) >= 2
    /\ now > 0

\* C26: a successful add_task makes the collection one task longer, a
\* successful delete_task one shorter, update_task, mark_completed and
\* mark_pending leave its length alone, a successful clear_completed_tasks
\* shortens it by the number of Completed tasks, and every operation that
\* reports failure leaves its length unchanged.
C26_SizeAccounting ==
    [][Tick \/ Reload
       \/ LET before == Len(tasks)
              after == Len(tasks')
          IN  /\ (ret'.op = "add" /\ ret'.ok) => after = before + 1
              /\ (ret'.op = "delete" /\ ret'.ok) => after = before - 1
              /\ ret'.op \in UpdateOps => after = before
              /\ (ret'.op = "clear" /\ ret'.ok)
                    => after = before - CountOf(tasks, "status", "Completed")
              /\ ~ret'.ok => after = before]_vars

\* C27: when the stored collection is the one in memory (the last save
\* succeeded), get_user_stats reports the same total_tasks, completed_tasks
\* and pending_tasks as get_task_statistics, whatever the statuses.
C27_StatisticsAgree ==
    (ret.op = "user_stats" /\ fileState = "ok" /\ saved = tasks)
        => LET stats == GetTaskStatistics(tasks, now)
           IN  /\ answer.total_tasks = stats.total_tasks
               /\ answer.completed_tasks = stats.completed_tasks
               /\ answer.pending_tasks = stats.pending_tasks

\* place of v in the list order, one behind its end for any other value
Place(order, v) ==
    IF \E k \in 1..Len(order) : order[k] = v
    THEN CHOOSE k \in 1..Len(order) : order[k] = v
    ELSE Len(order) + 1

\* a may stand before b in a list ordered by key
InKeyOrder(key, a, b) ==
    CASE key = "priority" ->
            Place(<<"High", "Medium", "Low">>, a.priority)
                <= Place(<<"High", "Medium", "Low">>, b.priority)
      [] key = "status" ->
            Place(<<"Pending", "In Progress", "Completed", "Cancelled">>,
                  a.status)
                <= Place(<<"Pending", "In Progress", "Completed",
                           "Cancelled">>, b.status)
      [] key = "due_date" ->
            \/ b.due_date = NoDate
            \/ a.due_date # NoDate /\ a.due_date <= b.due_date
      [] key = "created_at" -> a.created_at >= b.created_at
      [] key = "name" -> ~StrLess(Lower(b.name), Lower(a.name))

\* C25: sort_tasks(tasks, key) returns, for each of the keys due_date,
\* priority, name, created_at and status, a permutation of the list it was
\* given that is ordered by the key (priority High, Medium, Low; status
\* Pending, In Progress, Completed, Cancelled; due dates ascending with the
\* undated tasks last; created_at newest first; names by their lower-case
\* text) and keeps tasks of equal key in their given order; it leaves the
\* manager's collection as it was, and returns the list unchanged for any
\* other key.
C25_SortOrdering ==
    [][ret'.op = "sort"
         => LET input == answer'.input
                out == answer'.sorted
                key == answer'.sort_by
                n == Len(input)
                At(task) == CHOOSE k \in 1..n : out[k] = task
            IN  /\ tasks' = tasks
                /\ IF key \in {"due_date", "priority", "name", "created_at",
                                "status"}
                   THEN /\ Len(out) = n
                        /\ \A i \in 1..n : \E k \in 1..n : out[k] = input[i]
                        /\ \A k, l \in 1..n :
                              k < l => InKeyOrder(key, out[k], out[l])
                        /\ \A i, j \in 1..n :
                              (/\ i < j
                               /\ InKeyOrder(key, input[i], input[j])
                               /\ InKeyOrder(key, input[j], input[i]))
                                 => At(input[i]) < At(input[j])
                   ELSE out = input]_vars

\* three tasks, the two oldest created at one time and given in the order
\* other than by id, were sorted by created_at and changed places with the
\* newest
C25_Witness ==
    /\ ret.op = "sort"
    /\ answer.sort_by = "created_at"
    /\ Len(answer.input) = MaxTasks + 1
    /\ answer.sorted # answer.input
    /\ \E i, j \in 1..Len(answer.input) :
          /\ i < j
          /\ answer.input[i].id > answer.input[j].id
          /\ answer.input[i].created_at = answer.input[j].created_at
          /\ \E k \in 1..Len(answer.input) :
                answer.input[k].created_at > answer.input[i].created_at

\* C29: a delete_user call that returns failure leaves user_exists of its
\* username as it was before the call, and a register_user call whose save
\* fails leaves no record of its username behind.
C29_DeleteFailureKeepsUser ==
    [][\A username \in UsernameArgs :
          /\ \A password \in LoginArgs :
                (DeleteUser(username, password) /\ ~ret'.ok)
                   => (username \in DOMAIN users') = (username \in DOMAIN users)
          /\ \A password \in PasswordArgs :
                (/\ RegisterUser(username, password)
                 /\ ret'.msg = "Failed to save user data")
                   => username \notin DOMAIN users']_vars

\* C30: every registered username is 3 to 20 characters long and consists
\* of letters, digits and underscores only.
C30_UsernameCharacterSet ==
    \A name \in DOMAIN users :
        /\ Len(name) >= 3
        /\ Len(name) <= 20
        /\ \A i \in 1..Len(name) : name[i] \in Letters \cup Digits \cup {"_"}

====
